---- MODULE Spec2Model ----
(***************************************************************************)
(* Model of maps_api.py: the /scrape endpoint (scrape_locations), the      *)
(* per-listing extractor (extract_business_info) and the pagination        *)
(* driver (load_more_results).                                             *)
(*                                                                         *)
(* Text is a sequence of one-character strings, so that lower(), strip(),  *)
(* replace(), startswith() and the substring test are computed the way     *)
(* Python computes them.  The browser-automation engine is the             *)
(* environment: what a selector finds, whether a click or a navigation     *)
(* raises, and how many cards a scroll adds are nondeterministic.          *)
(***************************************************************************)
EXTENDS Integers, Sequences, FiniteSets, TLC

VARIABLES
    request,              \* the SearchRequest being served
    all_results,          \* list of accepted records            (line 157)
    processed_addresses,  \* set of seen addresses               (line 158)
    existing_names,       \* set of seen names                   (line 159)
    browser,              \* "none" | "open" | "closed"
    contexts,             \* list of the contexts opened, each "open"/"closed"
    pages,                \* list of the pages opened, each "open"/"closed"
    pc,                   \* position of the handler
    term_idx,             \* index i of the for loop over search_terms
    item_idx,             \* index of the next item of result_items / new_items
    visible,              \* number of '.Nv2PK' cards the current page shows
    error,                \* TRUE once an exception is propagating
    response,             \* what the caller receives
    op,                   \* the call the last step made
    listing,              \* the listing last handed to extract_business_info
    info,                 \* what extract_business_info returned for it
    probes,               \* how many address / phone strategies it attempted
    origin,               \* per accepted record: term index and item index
    scanned,              \* cards of the current page already extracted
    scroll                \* what the load_more_results call of the last step saw

vars == <<request, all_results, processed_addresses, existing_names, browser,
          contexts, pages, pc, term_idx, item_idx, visible, error, response,
          op, listing, info, probes, origin, scanned, scroll>>

-----------------------------------------------------------------------------
(* Text primitives *)

UPPER == <<"A","B","C","D","E","F","G","H","I","J","K","L","M",
           "N","O","P","Q","R","S","T","U","V","W","X","Y","Z">>

LOWER == <<"a","b","c","d","e","f","g","h","i","j","k","l","m",
           "n","o","p","q","r","s","t","u","v","w","x","y","z">>

DIGITS == {"0","1","2","3","4","5","6","7","8","9"}

WHITESPACE == {" "}

\* str.lower() on one character
LowerChar(c) ==
    IF \E k \in 1..Len(UPPER) : UPPER[k] = c
    THEN LOWER[CHOOSE k \in 1..Len(UPPER) : UPPER[k] = c]
    ELSE c

\* str.lower()
Lower(s) == [k \in 1..Len(s) |-> LowerChar(s[k])]

\* s.startswith(prefix)
StartsWith(s, prefix) ==
    /\ Len(prefix) <= Len(s)
    /\ SubSeq(s, 1, Len(prefix)) = prefix

\* sub in s
Contains(sub, s) ==
    \E k \in 1..(Len(s) - Len(sub) + 1) : SubSeq(s, k, k + Len(sub) - 1) = sub

\* str.strip(): leading and trailing whitespace removed
Strip(s) ==
    LET keep == {k \in 1..Len(s) : s[k] \notin WHITESPACE}
    IN  IF keep = {} THEN <<>>
        ELSE SubSeq(s, CHOOSE k \in keep : \A m \in keep : k <= m,
                       CHOOSE k \in keep : \A m \in keep : k >= m)

\* str.replace(old, ''), leftmost non-overlapping occurrences
RECURSIVE Remove(_, _)
Remove(s, old) ==
    IF s = <<>> THEN <<>>
    ELSE IF StartsWith(s, old) THEN Remove(SubSeq(s, Len(old) + 1, Len(s)), old)
    ELSE <<s[1]>> \o Remove(Tail(s), old)

\* any(char.isdigit() for char in s)
HasDigit(s) == \E k \in 1..Len(s) : s[k] \in DIGITS

CIGAR == <<"c","i","g","a","r">>

MOJIBAKE_DOT == <<"Â","·">>

-----------------------------------------------------------------------------
(* What the engine can answer for one selector, and a listing's DOM *)

\* wait_for_selector timed out / query_selector found nothing
Missing == [found |-> FALSE, readable |-> FALSE, text |-> <<>>]

\* the element was found, but reading it raises (detached, navigation)
Stale == [found |-> TRUE, readable |-> FALSE, text |-> <<>>]

\* the element was found and inner_text() returns t
Shown(t) == [found |-> TRUE, readable |-> TRUE, text |-> t]

Succeeds(o) == o.found /\ o.readable

\* Python's None, and a value that is not None
None == <<>>

Some(v) == <<v>>

-----------------------------------------------------------------------------
(* extract_business_info *)

\* Lines 65-72 and 81-88: the selectors are tried in order; the first one whose
\* element turns up and can be read ends the loop, an exception moves on.
\* `tried' is the number of selectors attempted.
RECURSIVE ResolveChainKeepGoing(_, _)
ResolveChainKeepGoing(answers, k) ==
    IF k > Len(answers) THEN [text |-> <<>>, tried |-> Len(answers)]
    ELSE LET rest == ResolveChainKeepGoing(answers, k + 1)
         IN  IF Succeeds(answers[k]) /\ \A m \in (k + 1)..Len(answers) : ~Succeeds(answers[m])
             THEN [text |-> Strip(answers[k].text), tried |-> Len(answers)]
             ELSE rest

RECURSIVE ResolveChain(_, _)
ResolveChain(answers, k) ==
    IF k > Len(answers) THEN [text |-> <<>>, tried |-> Len(answers)]
    ELSE IF Succeeds(answers[k])
         THEN [text |-> Strip(answers[k].text), tried |-> k]
         ELSE ResolveChain(answers, k + 1)

\* Lines 98-103: the first span holding a digit and not opening with '('.
RECURSIVE FirstAddressSpan(_, _)
FirstAddressSpan(spans, k) ==
    IF k > Len(spans) THEN None
    ELSE LET span_text == Strip(spans[k])
         IN  IF HasDigit(span_text) /\ ~StartsWith(span_text, <<"(">>)
             THEN Some(Strip(Remove(span_text, MOJIBAKE_DOT)))
             ELSE FirstAddressSpan(spans, k + 1)

\* Lines 93-108: the scan of the inline '.W4Efsd' containers.  `category' is
\* the test of line 97 on the container's text, `hours' the test of line 105.
RECURSIVE ScanContainers(_, _, _, _)
ScanContainers(cs, k, address, phone) ==
    IF k > Len(cs) THEN [raised |-> FALSE, address |-> address, phone |-> phone]
    ELSE LET c == cs[k]
             span == FirstAddressSpan(c.spans, 1)
             address2 == IF address = <<>> /\ c.category /\ span # None
                         THEN span[1] ELSE address
         IN  IF phone = <<>> /\ c.hours /\ c.usdlk.found
             THEN IF c.usdlk.readable
                  THEN ScanContainers(cs, k + 1, address2, Strip(c.usdlk.text))
                  ELSE [raised |-> TRUE, address |-> address2, phone |-> phone]
             ELSE ScanContainers(cs, k + 1, address2, phone)

\* Lines 110-120.
BuildResultNameOnly(name, address, phone) ==
    IF name # <<>>
    THEN Some([name |-> name, address |-> address, phone |-> phone, website |-> <<>>])
    ELSE None

BuildResult(name, address, phone) ==
    IF name # <<>> /\ phone # <<>>
    THEN Some([name |-> name, address |-> address, phone |-> phone, website |-> <<>>])
    ELSE None

\* Lines 42-48: the name filter.
BlocklistedCaseSensitive(name) == Contains(CIGAR, name)

Blocklisted(name) == Contains(CIGAR, Lower(name))

\* What the function hands back when it returns None early.
Nothing == [raised |-> FALSE, result |-> None, addr_tried |-> 0,
            phone_tried |-> 0, address |-> <<>>, phone |-> <<>>]

\* An exception leaves the try body of lines 39-120.
Thrown == [raised |-> TRUE, result |-> None, addr_tried |-> 0,
           phone_tried |-> 0, address |-> <<>>, phone |-> <<>>]

\* Lines 39-120, the body of the outer try.  `result' is the value returned;
\* `address' and `phone' are the locals at line 110, `addr_tried' and
\* `phone_tried' the number of selectors of each chain that were attempted.
ExtractBody(l) ==
    IF l.name.found /\ ~l.name.readable
    THEN Thrown                                        \* 45: inner_text raises
    ELSE
    LET name == IF l.name.found THEN l.name.text ELSE <<>> IN
    IF l.name.found /\ Blocklisted(name)
    THEN Nothing                                                 \* 47-48
    ELSE IF l.click_ok
    THEN LET a == ResolveChain(l.addr, 1)
             p == ResolveChain(l.phone, 1)
         IN  [raised |-> FALSE,
              result |-> BuildResult(name, a.text, p.text),
              addr_tried |-> a.tried, phone_tried |-> p.tried,
              address |-> a.text, phone |-> p.text]
    ELSE IF ~l.scan_ok
    THEN Thrown                              \* 93: query_selector_all raises
    ELSE LET s == ScanContainers(l.containers, 1, <<>>, <<>>)
         IN  IF s.raised THEN Thrown                  \* 108: inner_text raises
             ELSE [raised |-> FALSE,
                   result |-> BuildResult(name, s.address, s.phone),
                   addr_tried |-> 0, phone_tried |-> 0,
                   address |-> s.address, phone |-> s.phone]

\* Lines 122-124: except Exception: return None.
Rethrown(b) == b

Absorbed(b) == IF b.raised THEN Nothing ELSE b

\* Lines 36-124.
ExtractBusinessInfo(l) == Absorbed(ExtractBody(l))

\* The record kept of a call: everything but the returned value.
Probes(r) ==
    [addr |-> r.addr_tried, phone |-> r.phone_tried,
     address |-> r.address, phone_text |-> r.phone, raised |-> r.raised]

-----------------------------------------------------------------------------
(* The listings the engine may present *)

NUM_ADDRESS_SELECTORS == 3

NUM_PHONE_SELECTORS == 3

MaxContainers == 2

NAME_TEXTS ==
    { <<"A","c","e">>, <<"V","a","p">>, <<"c","i","g","a">>,
      <<"C","i","G","a","R">>, <<"B"," ","c","i","g","a","r","s">>, <<>> }

ADDRESS_TEXTS == { <<"1","M">>, <<" ","1","M">>, <<"2","O">>, <<" ">> }

PHONE_TEXTS == { <<"5","5">>, <<" ">> }

SPAN_LISTS ==
    { <<>>, << <<"x">> >>, << <<"(","5",")">>, <<" ","1","M"," ">> >>,
      << <<"2","Â","·","O">> >> }

Answers(texts) == {Missing, Stale} \cup {Shown(t) : t \in texts}

\* A '.W4Efsd' container; spans matter only under a category label, the
\* 'span.UsdlK' element only under an opening-hours marker.
Containers ==
    { c \in [category : BOOLEAN, hours : BOOLEAN, spans : SPAN_LISTS,
             usdlk : Answers({<<"5","5">>})] :
        /\ (~c.category => c.spans = <<>>)
        /\ (~c.hours => c.usdlk = Missing) }

ContainerLists == UNION {[1..n -> Containers] : n \in 0..MaxContainers}

AllMissing(n) == [k \in 1..n |-> Missing]

\* Listings whose click succeeds: the detail panel answers the selectors.
DetailListings ==
    [name : Answers(NAME_TEXTS), click_ok : {TRUE},
     addr : [1..NUM_ADDRESS_SELECTORS -> Answers(ADDRESS_TEXTS)],
     phone : [1..NUM_PHONE_SELECTORS -> Answers(PHONE_TEXTS)],
     scan_ok : {TRUE}, containers : {<<>>}]

\* Listings whose click (line 55) raises: the inline summary is scanned.
FallbackListings ==
    [name : Answers(NAME_TEXTS), click_ok : {FALSE},
     addr : {AllMissing(NUM_ADDRESS_SELECTORS)},
     phone : {AllMissing(NUM_PHONE_SELECTORS)},
     scan_ok : BOOLEAN, containers : ContainerLists]

Listings == DetailListings \cup FallbackListings

-----------------------------------------------------------------------------
(* The request *)

NoRequest ==
    [num_leads |-> 0, search_terms |-> <<>>,
     existing_names |-> None, existing_addresses |-> None]

\* set(x or [])
SetOrEmpty(x) == {x[k] : k \in 1..Len(x)}

\* No load_more_results call was made by the last step.
NoScroll == [initial |-> 0, new |-> 0, raised |-> FALSE, returned |-> FALSE]

NoResponse == [status |-> 0, total_leads |-> 0, results |-> <<>>]

\* extract_business_info alone, on every listing
InitExtract ==
    /\ request = NoRequest
    /\ all_results = <<>>
    /\ processed_addresses = {}
    /\ existing_names = {}
    /\ browser = "none"
    /\ contexts = <<>>
    /\ pages = <<>>
    /\ pc = "call"
    /\ term_idx = 0
    /\ item_idx = 0
    /\ visible = 0
    /\ error = FALSE
    /\ response = NoResponse
    /\ op = "none"
    /\ listing \in Listings
    /\ info = None
    /\ probes = Probes(Nothing)
    /\ origin = <<>>
    /\ scanned = 0
    /\ scroll = NoScroll

CallExtract ==
    /\ pc = "call"
    /\ scroll' = NoScroll
    /\ UNCHANGED scanned
    /\ LET r == ExtractBusinessInfo(listing)
       IN  /\ info' = r.result
           /\ probes' = Probes(r)
    /\ pc' = "returned"
    /\ op' = "extract"
    /\ UNCHANGED <<request, all_results, processed_addresses, existing_names,
                   browser, contexts, pages, term_idx, item_idx, visible,
                   error, response, listing, origin>>

NextExtract == CallExtract

SpecExtract == InitExtract /\ [][NextExtract]_vars

-----------------------------------------------------------------------------
(* scrape_locations *)

MaxLeads == 2

MaxTerms == 2

MaxVisible == 2

\* The default of SearchRequest.search_terms (line 24).
DEFAULT_TERMS == <<"smoke shop", "vape shop", "tobacco shop">>

ACE == <<"A","c","e">>

VAP == <<"V","a","p">>

\* Requests: a quota, the first terms of the list above, and optionally one
\* known name and one known address.
Requests ==
    [num_leads : 0..MaxLeads,
     search_terms : {SubSeq(DEFAULT_TERMS, 1, n) : n \in 0..MaxTerms},
     existing_names : {None, <<ACE>>},
     existing_addresses : {None, << <<"1","M">> >>}]

\* A card whose detail panel answers the first address and phone selector.
Card(name, address, phone) ==
    [name |-> Shown(name), click_ok |-> TRUE,
     addr |-> [k \in 1..NUM_ADDRESS_SELECTORS |->
                 IF k = 1 THEN Shown(address) ELSE Missing],
     phone |-> [k \in 1..NUM_PHONE_SELECTORS |->
                 IF k = 1 THEN Shown(phone) ELSE Missing],
     scan_ok |-> TRUE, containers |-> <<>>]

\* A card whose click raises and whose inline summary holds the fields.
InlineCard(name) ==
    [name |-> Shown(name), click_ok |-> FALSE,
     addr |-> AllMissing(NUM_ADDRESS_SELECTORS),
     phone |-> AllMissing(NUM_PHONE_SELECTORS),
     scan_ok |-> TRUE,
     containers |-> << [category |-> TRUE, hours |-> TRUE,
                        spans |-> << <<"2","Â","·","O">> >>,
                        usdlk |-> Shown(<<"5","5">>)] >>]

\* A card whose name element cannot be read.
DetachedCard ==
    [name |-> Stale, click_ok |-> TRUE,
     addr |-> AllMissing(NUM_ADDRESS_SELECTORS),
     phone |-> AllMissing(NUM_PHONE_SELECTORS),
     scan_ok |-> TRUE, containers |-> <<>>]

\* A card whose click raises and whose inline summary cannot be queried.
BrokenInlineCard ==
    [name |-> Shown(VAP), click_ok |-> FALSE,
     addr |-> AllMissing(NUM_ADDRESS_SELECTORS),
     phone |-> AllMissing(NUM_PHONE_SELECTORS),
     scan_ok |-> FALSE, containers |-> <<>>]

\* A card whose first address selector times out and whose second answers.
StaleSelectorCard ==
    [name |-> Shown(VAP), click_ok |-> TRUE,
     addr |-> <<Missing, Shown(<<"2","O">>), Missing>>,
     phone |-> <<Stale, Shown(<<"5","5">>), Missing>>,
     scan_ok |-> TRUE, containers |-> <<>>]

\* The cards a results page shows in this model (a part of Listings).
PageListings ==
    { Card(ACE, <<"1","M">>, <<"5","5">>),
      Card(ACE, <<"2","O">>, <<"5","5">>),
      Card(VAP, <<" ","1","M">>, <<"5","5">>),
      Card(VAP, <<"2","O">>, <<"5","5">>),
      Card(VAP, <<" ">>, <<"5","5">>),
      Card(VAP, <<"2","O">>, <<" ">>),
      Card(<<"C","i","G","a","R">>, <<"2","O">>, <<"5","5">>),
      Card(<<"B"," ","c","i","g","a","r","s">>, <<"2","O">>, <<"5","5">>),
      InlineCard(ACE),
      DetachedCard,
      BrokenInlineCard,
      StaleSelectorCard }

Init ==
    /\ request = NoRequest
    /\ all_results = <<>>
    /\ processed_addresses = {}
    /\ existing_names = {}
    /\ browser = "none"
    /\ contexts = <<>>
    /\ pages = <<>>
    /\ pc = "idle"
    /\ term_idx = 0
    /\ item_idx = 0
    /\ visible = 0
    /\ error = FALSE
    /\ response = NoResponse
    /\ op = "none"
    /\ listing = None
    /\ info = None
    /\ probes = Probes(Nothing)
    /\ origin = <<>>
    /\ scanned = 0
    /\ scroll = NoScroll

\* Line 158: processed_addresses = set(request.existing_addresses or []).
SeedAddresses(req) == SetOrEmpty(req.existing_addresses)

\* Line 159: existing_names = set(request.existing_names or []).
SeedNamesForgotten(req) == {}

SeedNames(req) == SetOrEmpty(req.existing_names)

\* Lines 155-159: the handler is entered, the seen sets are seeded.
Receive ==
    /\ pc = "idle"
    /\ scroll' = NoScroll
    /\ UNCHANGED scanned
    /\ \E req \in Requests :
          /\ request' = req
          /\ all_results' = <<>>
          /\ processed_addresses' = SeedAddresses(req)
          /\ existing_names' = SeedNames(req)
    /\ pc' = "launch"
    /\ op' = "receive"
    /\ UNCHANGED <<browser, contexts, pages, term_idx, item_idx, visible,
                   error, response, listing, info, probes, origin>>

\* An exception leaves the with block: control goes to its exit.
Raise ==
    /\ error' = TRUE
    /\ pc' = "exit_with"

\* Lines 162-163: sync_playwright() is entered and chromium launched.
Launch ==
    /\ pc = "launch"
    /\ scroll' = NoScroll
    /\ UNCHANGED scanned
    /\ op' = "launch"
    /\ \/ /\ browser' = "open"
          /\ term_idx' = 1
          /\ pc' = "for_term"
          /\ UNCHANGED error
       \/ /\ Raise
          /\ UNCHANGED <<browser, term_idx>>
    /\ UNCHANGED <<request, all_results, processed_addresses, existing_names,
                   contexts, pages, item_idx, visible, response, listing,
                   info, probes, origin>>

\* Lines 172, 196, 213, 219: len(all_results) >= request.num_leads.
QuotaReachedOffByOne == Len(all_results) > request.num_leads

QuotaReached == Len(all_results) >= request.num_leads

\* Lines 171-173: the for loop ends, by exhaustion or by the break.
LeaveTerms ==
    /\ pc = "for_term"
    /\ scroll' = NoScroll
    /\ UNCHANGED scanned
    /\ term_idx > Len(request.search_terms) \/ QuotaReached
    /\ pc' = "cleanup"
    /\ op' = "loop"
    /\ UNCHANGED <<request, all_results, processed_addresses, existing_names,
                   browser, contexts, pages, term_idx, item_idx, visible,
                   error, response, listing, info, probes, origin>>

\* Every handle of the list closed.
AllClosed(handles) == [k \in 1..Len(handles) |-> "closed"]

\* Lines 175-182: a context and a page are opened for the term.
OpenContextReleasingPrevious ==
    /\ pc = "for_term"
    /\ scroll' = NoScroll
    /\ UNCHANGED scanned
    /\ term_idx <= Len(request.search_terms)
    /\ ~QuotaReached
    /\ op' = "new_context"
    /\ \/ /\ contexts' = Append(AllClosed(contexts), "open")
          /\ pages' = Append(AllClosed(pages), "open")
          /\ pc' = "navigate"
          /\ UNCHANGED error
       \/ /\ Raise                                   \* new_context raises
          /\ UNCHANGED <<contexts, pages>>
       \/ /\ contexts' = Append(contexts, "open")    \* new_page raises
          /\ Raise
          /\ UNCHANGED pages
    /\ UNCHANGED <<request, all_results, processed_addresses, existing_names,
                   browser, term_idx, item_idx, visible, response, listing,
                   info, probes, origin>>

\* Lines 175-182: a context and a page are opened for the term.
OpenContext ==
    /\ pc = "for_term"
    /\ scroll' = NoScroll
    /\ UNCHANGED scanned
    /\ term_idx <= Len(request.search_terms)
    /\ ~QuotaReached
    /\ op' = "new_context"
    /\ \/ /\ contexts' = Append(contexts, "open")
          /\ pages' = Append(pages, "open")
          /\ pc' = "navigate"
          /\ UNCHANGED error
       \/ /\ Raise                                   \* new_context raises
          /\ UNCHANGED <<contexts, pages>>
       \/ /\ contexts' = Append(contexts, "open")    \* new_page raises
          /\ Raise
          /\ UNCHANGED pages
    /\ UNCHANGED <<request, all_results, processed_addresses, existing_names,
                   browser, term_idx, item_idx, visible, response, listing,
                   info, probes, origin>>

\* Lines 184-193: navigation, then the first query for result cards.
Navigate ==
    /\ pc = "navigate"
    /\ scroll' = NoScroll
    /\ scanned' = 0
    /\ \/ \E n \in 1..MaxVisible :
            /\ op' = "goto"
            /\ visible' = n
            /\ item_idx' = 1
            /\ pc' = "first_pass"
            /\ UNCHANGED <<term_idx, error>>
       \/ /\ op' = "goto"                             \* 191-193: continue
          /\ visible' = 0
          /\ term_idx' = term_idx + 1
          /\ pc' = "for_term"
          /\ UNCHANGED <<item_idx, error>>
       \/ /\ op' = "goto_timeout"  \* 186: the page never settles, goto
          /\ Raise                 \* raises TimeoutError
          /\ UNCHANGED <<visible, term_idx, item_idx>>
    /\ UNCHANGED <<request, all_results, processed_addresses, existing_names,
                   browser, contexts, pages, response, listing, info, probes,
                   origin>>

\* Lines 200-202 and 223-225: the test a returned record must pass.
AcceptableIgnoringName(inf, addresses, names) ==
    /\ inf # None
    /\ inf[1].address # <<>>
    /\ inf[1].address \notin addresses

AcceptableWithEmptyAddress(inf, addresses, names) ==
    /\ inf # None
    /\ inf[1].address = <<>> \/ inf[1].address \notin addresses
    /\ inf[1].name \notin names

Acceptable(inf, addresses, names) ==
    /\ inf # None
    /\ inf[1].address # <<>>
    /\ inf[1].address \notin addresses
    /\ inf[1].name \notin names

\* Lines 206 and 229: info['search_term'] = term.
Tagged(rec, term) ==
    [name |-> rec.name, address |-> rec.address, phone |-> rec.phone,
     website |-> rec.website, search_term |-> term]

\* Lines 207 and 230: all_results.append(info).
AddResultInFront(results, rec) == <<rec>> \o results

AddResult(results, rec) == Append(results, rec)

ProcessItemMarkingRejected ==
    \E l \in PageListings :
        LET r == ExtractBusinessInfo(l)
            term == request.search_terms[term_idx]
        IN  /\ listing' = l
            /\ info' = r.result
            /\ probes' = Probes(r)
            /\ op' = "extract"
            /\ error' = r.raised           \* an exception would leave the loop
            /\ pc' = IF r.raised THEN "exit_with" ELSE pc
            /\ item_idx' = item_idx + 1
            /\ scanned' = IF item_idx > scanned THEN item_idx ELSE scanned
            /\ IF Acceptable(r.result, processed_addresses, existing_names)
               THEN /\ processed_addresses' =
                           processed_addresses \cup {r.result[1].address}
                    /\ existing_names' = existing_names \cup {r.result[1].name}
                    /\ all_results' = AddResult(all_results, Tagged(r.result[1], term))
                    /\ origin' = Append(origin, [term |-> term_idx, item |-> item_idx])
               ELSE /\ existing_names' =
                           IF r.result # None
                           THEN existing_names \cup {r.result[1].name}
                           ELSE existing_names
                    /\ UNCHANGED <<processed_addresses, all_results, origin>>

\* Lines 199-210 and 222-233: one item of the pass is extracted and, if it
\* passes the test, recorded.
ProcessItem ==
    \E l \in PageListings :
        LET r == ExtractBusinessInfo(l)
            term == request.search_terms[term_idx]
        IN  /\ listing' = l
            /\ info' = r.result
            /\ probes' = Probes(r)
            /\ op' = "extract"
            /\ error' = r.raised           \* an exception would leave the loop
            /\ pc' = IF r.raised THEN "exit_with" ELSE pc
            /\ item_idx' = item_idx + 1
            /\ scanned' = IF item_idx > scanned THEN item_idx ELSE scanned
            /\ IF Acceptable(r.result, processed_addresses, existing_names)
               THEN /\ processed_addresses' =
                           processed_addresses \cup {r.result[1].address}
                    /\ existing_names' = existing_names \cup {r.result[1].name}
                    /\ all_results' = AddResult(all_results, Tagged(r.result[1], term))
                    /\ origin' = Append(origin, [term |-> term_idx, item |-> item_idx])
               ELSE UNCHANGED <<processed_addresses, existing_names,
                                all_results, origin>>

\* Lines 195-210: the pass over result_items.
FirstPassItem ==
    /\ pc = "first_pass"
    /\ scroll' = NoScroll
    /\ item_idx <= visible
    /\ ~QuotaReached
    /\ ProcessItem
    /\ UNCHANGED <<request, browser, contexts, pages, term_idx, visible,
                   response>>

\* Lines 195-197: result_items is exhausted, or the break of line 197.
FirstPassEnd ==
    /\ pc = "first_pass"
    /\ scroll' = NoScroll
    /\ UNCHANGED scanned
    /\ item_idx > visible \/ QuotaReached
    /\ pc' = "while"
    /\ op' = "loop"
    /\ UNCHANGED <<request, all_results, processed_addresses, existing_names,
                   browser, contexts, pages, term_idx, item_idx, visible,
                   error, response, listing, info, probes, origin>>

\* Lines 126-150: load_more_results; `raised' is any exception inside it.
LoadMoreResultsNotLess(initial_results, new_results, raised) ==
    IF raised THEN FALSE ELSE new_results >= initial_results

LoadMoreResults(initial_results, new_results, raised) ==
    IF raised THEN FALSE ELSE new_results > initial_results

\* Lines 213 and 171: the while loop is left because the quota is reached;
\* the for loop takes the next term.
WhileEnd ==
    /\ pc = "while"
    /\ scroll' = NoScroll
    /\ scanned' = 0
    /\ QuotaReached
    /\ term_idx' = term_idx + 1
    /\ pc' = "for_term"
    /\ op' = "loop"
    /\ UNCHANGED <<request, all_results, processed_addresses, existing_names,
                   browser, contexts, pages, item_idx, visible, error,
                   response, listing, info, probes, origin>>

\* Lines 213-217: one scroll; no growth breaks out to the next term, growth
\* re-queries the cards.
LoadMore ==
    /\ pc = "while"
    /\ ~QuotaReached
    /\ op' = "load_more"
    /\ \E new_results \in 0..MaxVisible, raised \in BOOLEAN :
          /\ scroll' = [initial |-> visible, new |-> new_results,
                        raised |-> raised,
                        returned |-> LoadMoreResults(visible, new_results, raised)]
          /\ IF LoadMoreResults(visible, new_results, raised)
             THEN \/ /\ visible' = new_results        \* 217: new_items
                     /\ item_idx' = 1
                     /\ pc' = "more_pass"
                     /\ UNCHANGED <<term_idx, error, scanned>>
                  \/ /\ Raise                         \* 217 raises
                     /\ UNCHANGED <<visible, item_idx, term_idx, scanned>>
             ELSE /\ term_idx' = term_idx + 1         \* 214-215: break
                  /\ pc' = "for_term"
                  /\ scanned' = 0
                  /\ UNCHANGED <<visible, item_idx, error>>
    /\ UNCHANGED <<request, all_results, processed_addresses, existing_names,
                   browser, contexts, pages, response, listing, info, probes,
                   origin>>

\* Lines 218-233: the pass over new_items.
MorePassItem ==
    /\ pc = "more_pass"
    /\ scroll' = NoScroll
    /\ item_idx <= visible
    /\ ~QuotaReached
    /\ ProcessItem
    /\ UNCHANGED <<request, browser, contexts, pages, term_idx, visible,
                   response>>

\* Lines 218-220: new_items is exhausted, or the break of line 220.
MorePassEnd ==
    /\ pc = "more_pass"
    /\ scroll' = NoScroll
    /\ UNCHANGED scanned
    /\ item_idx > visible \/ QuotaReached
    /\ pc' = "while"
    /\ op' = "loop"
    /\ UNCHANGED <<request, all_results, processed_addresses, existing_names,
                   browser, contexts, pages, term_idx, item_idx, visible,
                   error, response, listing, info, probes, origin>>

\* Lines 235-240: pages, contexts and the browser are closed.
Cleanup ==
    /\ pc = "cleanup"
    /\ scroll' = NoScroll
    /\ UNCHANGED scanned
    /\ op' = "cleanup"
    /\ \/ /\ pages' = AllClosed(pages)
          /\ contexts' = AllClosed(contexts)
          /\ browser' = "closed"
          /\ pc' = "exit_with"
          /\ UNCHANGED error
       \/ /\ Raise                                   \* a page.close() raises
          /\ UNCHANGED <<pages, contexts, browser>>
       \/ /\ pages' = AllClosed(pages)               \* browser.close() raises
          /\ contexts' = AllClosed(contexts)
          /\ Raise
          /\ UNCHANGED browser
    /\ UNCHANGED <<request, all_results, processed_addresses, existing_names,
                   term_idx, item_idx, visible, response, listing, info,
                   probes, origin>>

\* Line 162, leaving the with block: the Playwright driver is stopped, which
\* ends the browser it launched and with it every context and page.
StopPlaywrightLeavesBrowser(b) == b

StopPlaywright(b) == IF b = "open" THEN "closed" ELSE b

ExitWith ==
    /\ pc = "exit_with"
    /\ scroll' = NoScroll
    /\ UNCHANGED scanned
    /\ op' = "exit"
    /\ browser' = StopPlaywright(browser)
    /\ contexts' = IF StopPlaywright(browser) = "open" THEN contexts
                   ELSE AllClosed(contexts)
    /\ pages' = IF StopPlaywright(browser) = "open" THEN pages
                ELSE AllClosed(pages)
    /\ pc' = "respond"
    /\ UNCHANGED <<request, all_results, processed_addresses, existing_names,
                   term_idx, item_idx, visible, error, response, listing,
                   info, probes, origin>>

\* Lines 242-258: what the caller gets.
OutcomeWithoutNotFound(failed, results) ==
    IF failed THEN [status |-> 500, total_leads |-> 0, results |-> <<>>]
    ELSE [status |-> 200, total_leads |-> Len(results), results |-> results]

OutcomeResultsFirst(failed, results) ==
    IF results # <<>>
    THEN [status |-> 200, total_leads |-> Len(results), results |-> results]
    ELSE IF failed
         THEN [status |-> 500, total_leads |-> 0, results |-> <<>>]
         ELSE [status |-> 404, total_leads |-> 0, results |-> <<>>]

Outcome(failed, results) ==
    IF failed THEN [status |-> 500, total_leads |-> 0, results |-> <<>>]
    ELSE IF results = <<>>
         THEN [status |-> 404, total_leads |-> 0, results |-> <<>>]
         ELSE [status |-> 200, total_leads |-> Len(results), results |-> results]

Respond ==
    /\ pc = "respond"
    /\ scroll' = NoScroll
    /\ UNCHANGED scanned
    /\ op' = "respond"
    /\ response' = Outcome(error, all_results)
    /\ pc' = "done"
    /\ UNCHANGED <<request, all_results, processed_addresses, existing_names,
                   browser, contexts, pages, term_idx, item_idx, visible,
                   error, listing, info, probes, origin>>

Next ==
    \/ Receive
    \/ Launch
    \/ LeaveTerms
    \/ OpenContext
    \/ Navigate
    \/ FirstPassItem
    \/ FirstPassEnd
    \/ WhileEnd
    \/ LoadMore
    \/ MorePassItem
    \/ MorePassEnd
    \/ Cleanup
    \/ ExitWith
    \/ Respond

Spec == Init /\ [][Next]_vars

\* The handler is one sequential thread: as long as every automation call
\* returns, its next statement is executed.
SpecFair == Init /\ [][Next]_vars /\ WF_vars(Next)

-----------------------------------------------------------------------------
(* Properties *)

Seen(list) == {list[k] : k \in 1..Len(list)}

\* C1: all_results never holds more than num_leads records, and once it holds
\* num_leads no step extracts a listing, calls load_more_results or opens a
\* context.
C1_QuotaBound ==
    /\ [](Len(all_results) <= request.num_leads)
    /\ [][Len(all_results) >= request.num_leads
            => op' \notin {"extract", "load_more", "new_context"}]_vars

\* The quota was reached with items of the page and terms of the request
\* left over.
C1_Witness ==
    /\ pc = "cleanup"
    /\ request.num_leads > 0
    /\ Len(all_results) = request.num_leads
    /\ item_idx <= visible
    /\ term_idx <= Len(request.search_terms)

\* C2: a candidate whose address or name is already seen leaves the result
\* count as it is, and no two records share a name or share an address.
C2_NoDuplicates ==
    /\ [](\A a, b \in 1..Len(all_results) :
            a # b => /\ all_results[a].name # all_results[b].name
                     /\ all_results[a].address # all_results[b].address)
    /\ [][(/\ op' = "extract"
            /\ info' # None
            /\ \/ info'[1].address \in processed_addresses
               \/ info'[1].name \in existing_names)
           => Len(all_results') = Len(all_results)]_vars

\* After a scroll, a card is extracted whose address an earlier term's record
\* has under another name.
C2_Witness ==
    /\ pc = "more_pass"
    /\ op = "extract"
    /\ info # None
    /\ \E k \in 1..Len(all_results) :
          /\ all_results[k].address = info[1].address
          /\ all_results[k].name # info[1].name
          /\ origin[k].term < term_idx

\* C3: no record carries a name of request.existing_names or an address of
\* request.existing_addresses.
C3_SeedCarryOver ==
    \A k \in 1..Len(all_results) :
        /\ all_results[k].name \notin Seen(request.existing_names)
        /\ all_results[k].address \notin Seen(request.existing_addresses)

\* A card with a seeded name and a fresh address was extracted and dropped.
C3_Witness ==
    /\ op = "extract"
    /\ info # None
    /\ info[1].name \in Seen(request.existing_names)
    /\ info[1].address # <<>>
    /\ info[1].address \notin processed_addresses
    /\ \A k \in 1..Len(all_results) : all_results[k].name # info[1].name

\* C4: all_results only grows at its end, by the record of the listing just
\* extracted; records appear by term in request order.
C4_DiscoveryOrder ==
    /\ [][\/ all_results' = all_results
           \/ /\ op' = "extract"
              /\ info' # None
              /\ Len(all_results') = Len(all_results) + 1
              /\ SubSeq(all_results', 1, Len(all_results)) = all_results
              /\ all_results'[Len(all_results')] =
                     Tagged(info'[1], request.search_terms[term_idx])]_vars
    /\ [](\A a, b \in 1..Len(all_results) :
            a < b =>
              /\ origin[a].term <= origin[b].term
              /\ all_results[a].search_term = request.search_terms[origin[a].term]
              /\ all_results[b].search_term = request.search_terms[origin[b].term])

\* A success carrying a record of the first term and one of the second.
C4_Witness ==
    /\ pc = "done"
    /\ response.status = 200
    /\ Len(request.search_terms) >= 2
    /\ Len(response.results) = 2
    /\ response.results[1].search_term = request.search_terms[1]
    /\ response.results[2].search_term = request.search_terms[2]

\* C5: no record's name contains "cigar" in any letter case, and
\* extract_business_info returns None for a listing with such a name.
C5_Blocklist ==
    /\ \A k \in 1..Len(all_results) :
          ~Contains(CIGAR, Lower(all_results[k].name))
    /\ (/\ op = "extract"
        /\ Succeeds(listing.name)
        /\ Contains(CIGAR, Lower(listing.name.text)))
       => info = None

\* A mixed-case "CiGaR" card with a phone and an unseen address was
\* extracted while the quota was open.
C5_Witness ==
    /\ op = "extract"
    /\ listing = Card(<<"C","i","G","a","R">>, <<"2","O">>, <<"5","5">>)
    /\ <<"2","O">> \notin processed_addresses
    /\ info = None

\* C6: with no failure and no record the response is 404; a 200 response
\* has total_leads = len(results) >= 1.
C6_NotFound ==
    pc = "done" =>
        /\ (~error /\ all_results = <<>>) => response.status = 404
        /\ response.status = 200 =>
              /\ response.total_leads = Len(response.results)
              /\ response.total_leads >= 1
              /\ response.results = all_results

\* Cards were extracted, none was kept, and the caller got 404.
C6_Witness ==
    /\ pc = "done"
    /\ response.status = 404
    /\ listing # None
    /\ ~error

\* The call reaches the selector chains: the name could be read (or there
\* was no name element), it is not blocklisted, and the click succeeded.
DetailPath(l) ==
    /\ ~(l.name.found /\ ~l.name.readable)
    /\ ~(l.name.found /\ Contains(CIGAR, Lower(l.name.text)))
    /\ l.click_ok

FirstWhere(answers, Good(_)) ==
    CHOOSE k \in 1..Len(answers) :
        Good(answers[k]) /\ \A m \in 1..(k - 1) : ~Good(answers[m])

\* C7: in the detail-panel path each chain stops at its first strategy that
\* succeeds, the field is that strategy's text, later strategies are not
\* attempted, and a total miss of the address chain still lets the phone
\* chain run.
C7_FallbackChain ==
    (pc = "returned" /\ DetailPath(listing)) =>
        /\ (\E k \in 1..NUM_ADDRESS_SELECTORS : Succeeds(listing.addr[k])) =>
              LET n == FirstWhere(listing.addr, Succeeds)
              IN  /\ probes.addr = n
                  /\ probes.address = Strip(listing.addr[n].text)
        /\ (\E k \in 1..NUM_PHONE_SELECTORS : Succeeds(listing.phone[k])) =>
              LET n == FirstWhere(listing.phone, Succeeds)
              IN  /\ probes.phone = n
                  /\ probes.phone_text = Strip(listing.phone[n].text)
        /\ (\A k \in 1..NUM_ADDRESS_SELECTORS : ~Succeeds(listing.addr[k])) =>
              /\ probes.addr = NUM_ADDRESS_SELECTORS
              /\ probes.address = <<>>
              /\ probes.phone >= 1
        /\ info # None =>
              /\ info[1].address = probes.address
              /\ info[1].phone = probes.phone_text

\* The first address strategy failed, the second and the third would both
\* have answered, with different texts; the record carries the second's.
C7_Witness ==
    /\ pc = "returned"
    /\ DetailPath(listing)
    /\ ~Succeeds(listing.addr[1])
    /\ Succeeds(listing.addr[2])
    /\ Succeeds(listing.addr[3])
    /\ Strip(listing.addr[2].text) # Strip(listing.addr[3].text)
    /\ probes.addr = 2
    /\ info # None
    /\ info[1].address = Strip(listing.addr[2].text)

NonEmpty(o) == Succeeds(o) /\ Strip(o.text) # <<>>

\* C8: the first strategy that yields visible, non-empty text wins: an
\* element whose stripped text is empty does not end the chain.
C8_FirstNonEmptyWins ==
    (pc = "returned" /\ DetailPath(listing)) =>
        /\ (\E k \in 1..NUM_ADDRESS_SELECTORS : NonEmpty(listing.addr[k])) =>
              probes.address =
                  Strip(listing.addr[FirstWhere(listing.addr, NonEmpty)].text)
        /\ (\E k \in 1..NUM_PHONE_SELECTORS : NonEmpty(listing.phone[k])) =>
              probes.phone_text =
                  Strip(listing.phone[FirstWhere(listing.phone, NonEmpty)].text)

\* C9: a timeout on a term's initial results is not fatal: no exception
\* propagates, the records stay, and the for loop takes the next term.
C9_TimeoutNotFatal ==
    [][op' = "goto_timeout" =>
          /\ ~error'
          /\ pc' = "for_term"
          /\ term_idx' = term_idx + 1
          /\ all_results' = all_results]_vars

\* C10: once the handler is about to answer, and after it has, the browser
\* is not running and every context and page opened is closed.
C10_TornDown ==
    pc \in {"respond", "done"} =>
        /\ browser # "open"
        /\ \A k \in 1..Len(contexts) : contexts[k] = "closed"
        /\ \A k \in 1..Len(pages) : pages[k] = "closed"

\* A failure after records were found under an open context: the caller got
\* 500 and nothing is left open.
C10_Witness ==
    /\ pc = "done"
    /\ response.status = 500
    /\ all_results # <<>>
    /\ Len(pages) >= 1
    /\ browser = "closed"
    /\ \A k \in 1..Len(pages) : pages[k] = "closed"

\* C11 as stated: a candidate is rejected exactly when its non-empty address
\* or its name is already seen; otherwise, also with an empty address, it is
\* appended with its term, its name is added to the seen names and its
\* address, if not empty, to the seen addresses.
C11_AcceptsEmptyAddress ==
    [][(op' = "extract" /\ info' # None) =>
         IF \/ info'[1].address # <<>> /\ info'[1].address \in processed_addresses
            \/ info'[1].name \in existing_names
         THEN all_results' = all_results
         ELSE /\ all_results' = Append(all_results,
                     Tagged(info'[1], request.search_terms[term_idx]))
              /\ existing_names' = existing_names \cup {info'[1].name}
              /\ processed_addresses' =
                     IF info'[1].address # <<>>
                     THEN processed_addresses \cup {info'[1].address}
                     ELSE processed_addresses]_vars

\* C11 amended: a candidate is rejected exactly when its address is empty,
\* its address is already seen, or its name is already seen; otherwise it is
\* appended with its term and its name and address join the seen sets.
C11_AcceptRequiresAddress ==
    [][(op' = "extract" /\ info' # None) =>
         IF \/ info'[1].address = <<>>
            \/ info'[1].address \in processed_addresses
            \/ info'[1].name \in existing_names
         THEN /\ all_results' = all_results
              /\ existing_names' = existing_names
              /\ processed_addresses' = processed_addresses
         ELSE /\ all_results' = Append(all_results,
                     Tagged(info'[1], request.search_terms[term_idx]))
              /\ existing_names' = existing_names \cup {info'[1].name}
              /\ processed_addresses' =
                     processed_addresses \cup {info'[1].address}]_vars

\* With one record already kept, a card with a name not seen, a phone and
\* an empty address was extracted and not kept.
C11_Witness ==
    /\ op = "extract"
    /\ info # None
    /\ info[1].address = <<>>
    /\ info[1].name \notin existing_names
    /\ Len(all_results) = 1
    /\ Len(all_results) < request.num_leads

\* C12: a pass after a scroll extracts newly visible cards only: no card
\* handed to extract_business_info in an earlier pass of the term is handed
\* to it again.
C12_NewListingsOnly ==
    [][op' = "extract" => item_idx > scanned]_vars

\* C13: whatever fails while one listing is processed, the call returns
\* without raising, no exception propagates into the scrape, and the pass
\* moves on to the next item.
C13_ListingFailuresAbsorbed ==
    [][op' = "extract" =>
          /\ ~probes'.raised
          /\ ~error'
          /\ pc' = pc
          /\ item_idx' = item_idx + 1
          /\ response' = response]_vars

\* The last card extracted could not even be scanned inline, and the caller
\* still got the records found before it.
C13_Witness ==
    /\ pc = "done"
    /\ response.status = 200
    /\ listing = BrokenInlineCard
    /\ info = None

\* C14: every record has a non-empty name, a non-empty phone, an empty
\* website, and as search_term the term of the session that accepted it; a
\* business met again under a later term keeps the earlier term.
C14_RecordShape ==
    /\ \A k \in 1..Len(all_results) :
          /\ all_results[k].name # <<>>
          /\ all_results[k].phone # <<>>
          /\ all_results[k].website = <<>>
          /\ origin[k].term \in 1..Len(request.search_terms)
          /\ all_results[k].search_term = request.search_terms[origin[k].term]
    /\ Len(origin) = Len(all_results)
    /\ (op = "extract" /\ info # None) =>
          \A k \in 1..Len(all_results) :
              all_results[k].name = info[1].name => origin[k].term <= term_idx

\* A business kept under the first term shows up again under the second;
\* its record still carries the first term.
C14_Witness ==
    /\ op = "extract"
    /\ info # None
    /\ term_idx = 2
    /\ \E k \in 1..Len(all_results) :
          /\ all_results[k].name = info[1].name
          /\ all_results[k].address = info[1].address
          /\ all_results[k].search_term = request.search_terms[1]

OpenOnes(handles) == {k \in 1..Len(handles) : handles[k] = "open"}

\* C15 as stated: a term's context and page are released before the next
\* term's context is opened, so at most one context is open at any time.
C15_OneContextAtATime ==
    /\ Cardinality(OpenOnes(contexts)) <= 1
    /\ Cardinality(OpenOnes(pages)) <= 1

\* C15 amended: while the terms are being worked through, one context has
\* been opened per term started and every context and page opened is still
\* open; they are closed together by the cleanup after the last term.
C15_ContextsHeldUntilCleanup ==
    /\ pc \in {"for_term", "cleanup"} =>
          /\ Len(contexts) = term_idx - 1
          /\ Len(pages) = Len(contexts)
    /\ pc \in {"navigate", "first_pass", "while", "more_pass"} =>
          /\ Len(contexts) = term_idx
          /\ Len(pages) = Len(contexts)
    /\ pc \in {"for_term", "navigate", "first_pass", "while", "more_pass",
                "cleanup"} =>
          /\ OpenOnes(contexts) = 1..Len(contexts)
          /\ OpenOnes(pages) = 1..Len(pages)
    /\ (pc = "exit_with" /\ ~error) =>
          /\ OpenOnes(contexts) = {}
          /\ OpenOnes(pages) = {}

\* The second term's cards are being extracted with the first term's
\* context and page still open.
C15_Witness ==
    /\ pc = "first_pass"
    /\ term_idx = 2
    /\ OpenOnes(contexts) = {1, 2}
    /\ OpenOnes(pages) = {1, 2}

\* C16: load_more_results returns true iff the card count after the scroll
\* exceeds the count before it and nothing failed; a false return ends the
\* term's pagination without error and the next term is taken; and the
\* handler eventually answers.
C16_PaginationEnds ==
    /\ [][op' = "load_more" =>
            /\ scroll'.initial = visible
            /\ scroll'.returned <=>
                  (~scroll'.raised /\ scroll'.new > scroll'.initial)
            /\ ~scroll'.returned =>
                  /\ ~error'
                  /\ pc' = "for_term"
                  /\ term_idx' = term_idx + 1
                  /\ all_results' = all_results]_vars
    /\ <>(pc = "done" /\ response.status \in {200, 404, 500})

\* A scroll that raised was reported as no growth; the for loop is back at
\* its head with a further term to take and no exception pending.
C16_Witness ==
    /\ op = "load_more"
    /\ scroll.raised
    /\ ~scroll.returned
    /\ pc = "for_term"
    /\ ~error
    /\ term_idx <= Len(request.search_terms)

\* C17: every record has a non-empty address, and the empty string is in
\* the seen addresses only if the request put it there.
C17_AddressRequired ==
    /\ \A k \in 1..Len(all_results) : all_results[k].address # <<>>
    /\ <<>> \in processed_addresses => <<>> \in Seen(request.existing_addresses)
    /\ (op = "extract" /\ info # None /\ info[1].address = <<>>) =>
          \A k \in 1..Len(all_results) :
              all_results[k].name = info[1].name => all_results[k].address # <<>>

\* After a scroll, with nothing kept yet, a card with a fresh name, a phone
\* and an empty address was extracted and dropped.
C17_Witness ==
    /\ pc = "more_pass"
    /\ op = "extract"
    /\ info # None
    /\ info[1].address = <<>>
    /\ info[1].phone # <<>>
    /\ info[1].name \notin existing_names
    /\ all_results = <<>>

\* C18: an exception that reaches the handler ends the request in 500 with
\* no record in the response, whatever had been accumulated.
C18_FailureDropsRecords ==
    (pc = "done" /\ error) =>
        /\ response.status = 500
        /\ response.results = <<>>
        /\ response.total_leads = 0

\* The quota had been filled when the cleanup raised: the caller got 500.
C18_Witness ==
    /\ pc = "done"
    /\ error
    /\ op = "respond"
    /\ request.num_leads > 0
    /\ Len(all_results) = request.num_leads
    /\ response.status = 500

Names(records) == {records[k].name : k \in 1..Len(records)}

Addresses(records) == {records[k].address : k \in 1..Len(records)}

\* C19: a listing that is unusable or a duplicate leaves all_results and
\* both seen sets as they are; an accepted one adds one record, its name and
\* its address; so the seen names are the seeded names plus the names of
\* all_results, and likewise for the addresses.
C19_FrameAndSeenSets ==
    /\ [](/\ existing_names =
               Seen(request.existing_names) \cup Names(all_results)
           /\ processed_addresses =
               Seen(request.existing_addresses) \cup Addresses(all_results))
    /\ [][op' = "extract" =>
            IF all_results' = all_results
            THEN /\ existing_names' = existing_names
                 /\ processed_addresses' = processed_addresses
            ELSE /\ info' # None
                 /\ all_results' = Append(all_results, all_results'[Len(all_results')])
                 /\ all_results'[Len(all_results')].name = info'[1].name
                 /\ all_results'[Len(all_results')].address = info'[1].address
                 /\ info'[1].name \notin existing_names
                 /\ info'[1].address \notin processed_addresses
                 /\ existing_names' = existing_names \cup {info'[1].name}
                 /\ processed_addresses' =
                        processed_addresses \cup {info'[1].address}]_vars
    /\ [][(/\ op' = "extract"
            /\ \/ info' = None
               \/ info'[1].address = <<>>
               \/ info'[1].address \in processed_addresses
               \/ info'[1].name \in existing_names)
           => all_results' = all_results]_vars

\* With one record kept, a card without a phone was extracted: nothing
\* was returned for it and nothing changed.
C19_Witness ==
    /\ op = "extract"
    /\ Len(all_results) = 1
    /\ Succeeds(listing.name)
    /\ ~Contains(CIGAR, Lower(listing.name.text))
    /\ listing.name.text \notin existing_names
    /\ listing.click_ok
    /\ probes.phone_text = <<>>
    /\ info = None

====
